---- MODULE Spec2Model ----
(***************************************************************************)
(* Model of package request (src/request/request.go): the Header option    *)
(* value (Set, Apply, headerDefaultValue), replaceTemplate and             *)
(* Request.Apply.                                                          *)
(*                                                                         *)
(* A Go string is a finite sequence: of characters where replaceTemplate   *)
(* is examined on its own (SpecReplace), and of tokens (short pieces of    *)
(* text such as "http://", "example.com", "FUZZ") where header sets and    *)
(* requests are built.  The empty string is <<>>.  The token strings used  *)
(* below are chosen so that no two different token sequences spell the     *)
(* same text, hence equality of sequences is equality of strings.          *)
(***************************************************************************)
EXTENDS Integers, Sequences, FiniteSets, TLC

VARIABLES
    URL,                    \* Request.URL
    Method,                 \* Request.Method
    Body,                   \* Request.Body
    TemplateFile,           \* Request.TemplateFile
    ForceChunkedEncoding,   \* Request.ForceChunkedEncoding
    Header,                 \* *Request.Header: [Header |-> map, Remove |-> set]
    DefaultHeader,          \* the package variable DefaultHeader
    directives,             \* the strings passed to Header.Set so far, in order
    op,                     \* the operation that ran last
    call,                   \* its arguments
    ret                     \* what it returned or left in its target

vars == <<URL, Method, Body, TemplateFile, ForceChunkedEncoding, Header,
          DefaultHeader, directives, op, call, ret>>

tmplVars == <<URL, Method, Body, TemplateFile, ForceChunkedEncoding, Header,
              DefaultHeader>>

(***************************************************************************)
(* Bounds                                                                  *)
(***************************************************************************)
MaxStrLen == 3          \* longest s given to replaceTemplate in SpecReplace
MaxPatLen == 2          \* longest template and value in SpecReplace
MaxDirectives == 2      \* Header.Set calls before Request.Apply
MaxHdrDirectives == 2   \* Header.Set calls before Header.Apply in SpecHeader

(***************************************************************************)
(* strings.Contains / strings.Replace(s, old, new, -1) / replaceTemplate   *)
(***************************************************************************)
HasPrefixAt(s, i, t) ==
    /\ i + Len(t) - 1 <= Len(s)
    /\ \A j \in 1..Len(t) : s[i + j - 1] = t[j]

Contains(s, t) == \E i \in 1..(Len(s) + 1) : HasPrefixAt(s, i, t)

RECURSIVE ReplaceFrom(_, _, _, _)
\* strings.Replace with n = -1, scanning s from position i: the leftmost
\* match is replaced and the scan resumes behind it (matches never overlap).
\* An empty old matches before every element and at the end.
ReplaceFrom(s, i, old, new) ==
    IF old = <<>>
    THEN IF i > Len(s) THEN new
         ELSE new \o <<s[i]>> \o ReplaceFrom(s, i + 1, old, new)
    ELSE IF i > Len(s) THEN <<>>
         ELSE IF HasPrefixAt(s, i, old)
              THEN new \o ReplaceFrom(s, i + Len(old), old, new)
              ELSE <<s[i]>> \o ReplaceFrom(s, i + 1, old, new)

Replace(s, old, new) == ReplaceFrom(s, 1, old, new)

\* a slip that passes value and template to strings.Replace in the wrong order
replaceTemplateSwapped(s, template, value) ==
    IF ~Contains(s, template) THEN s ELSE Replace(s, value, template)

replaceTemplate(s, template, value) ==
    IF ~Contains(s, template) THEN s ELSE Replace(s, template, value)

(***************************************************************************)
(* Go maps, as functions on the set of their keys                          *)
(***************************************************************************)
EmptyMap == [k \in {} |-> <<>>]

MapSet(m, k, v) == [x \in (DOMAIN m) \cup {k} |-> IF x = k THEN v ELSE m[x]]

MapDelete(m, k) == [x \in (DOMAIN m) \ {k} |-> m[x]]

MapGet(m, k) == IF k \in DOMAIN m THEN m[k] ELSE <<>>

(***************************************************************************)
(* textproto.CanonicalMIMEHeaderKey.  A header name is canonicalised       *)
(* token by token: every token of a name starts a word of the name (the    *)
(* names used are one token long).  A name holding a byte that is not a    *)
(* header-field byte is returned as it is.                                 *)
(***************************************************************************)
FieldToks == {"Accept", "accept", "Host", "host", "User-Agent", "Authorization",
              "X-Foo", "FUZZ", "Fuzz", "admin", "Admin"}

CanonTok(t) ==
    CASE t = "accept" -> "Accept"
      [] t = "host"   -> "Host"
      [] t = "FUZZ"   -> "Fuzz"
      [] t = "admin"  -> "Admin"
      [] OTHER        -> t

CanonicalMIMEHeaderKey(name) ==
    IF \A i \in 1..Len(name) : name[i] \in FieldToks
    THEN [i \in 1..Len(name) |-> CanonTok(name[i])]
    ELSE name

(***************************************************************************)
(* http.Header: Del, Add, Set canonicalise the key they are given          *)
(***************************************************************************)
Del(hdr, key) == MapDelete(hdr, CanonicalMIMEHeaderKey(key))

Add(hdr, key, value) ==
    LET k == CanonicalMIMEHeaderKey(key)
    IN  MapSet(hdr, k, Append(MapGet(hdr, k), value))

HeaderSet(hdr, key, value) == MapSet(hdr, CanonicalMIMEHeaderKey(key), <<value>>)

(***************************************************************************)
(* headerDefaultValue: the values stored under the canonical name equal    *)
(* the default ones once both are sorted, i.e. as multisets.               *)
(***************************************************************************)
Occurrences(seq, x) == Cardinality({i \in 1..Len(seq) : seq[i] = x})

SortedEqual(a, b) ==
    /\ Len(a) = Len(b)
    /\ \A i \in 1..Len(a) : Occurrences(a, a[i]) = Occurrences(b, a[i])

headerDefaultValue(h, name) ==
    LET key == CanonicalMIMEHeaderKey(name)
    IN  /\ key \in DOMAIN h.Header
        /\ key \in DOMAIN DefaultHeader
        /\ SortedEqual(h.Header[key], DefaultHeader[key])

(***************************************************************************)
(* Header.Set: s is split at its first ":"                                 *)
(***************************************************************************)
FirstColon(s) ==
    IF \E i \in 1..Len(s) : s[i] = ":"
    THEN CHOOSE i \in 1..Len(s) : s[i] = ":" /\ \A j \in 1..(i - 1) : s[j] # ":"
    ELSE 0

Set(h, s) ==
    LET c    == FirstColon(s)
        name == IF c = 0 THEN s ELSE SubSeq(s, 1, c - 1)
    IN  IF c = 0
        THEN [h EXCEPT !.Remove = @ \cup {name}]
        ELSE LET data1 == SubSeq(s, c + 1, Len(s))
                 kept  == IF headerDefaultValue(h, name)
                          THEN MapDelete(h.Header, name)
                          ELSE h.Header
                 val   == IF Len(data1) > 0 /\ data1[1] = " "
                          THEN Tail(data1)
                          ELSE data1
             IN  [h EXCEPT !.Header = MapSet(kept, name, Append(MapGet(kept, name), val))]

\* NewHeader(defaults)
NewHeader(defaults) == [Header |-> defaults, Remove |-> {}]

(***************************************************************************)
(* Header.Apply.  Go visits the keys of a map in an order that differs     *)
(* from run to run, so the loop over h.Header yields a set of possible     *)
(* targets: all those some visiting order produces.                        *)
(***************************************************************************)
RECURSIVE AddValues(_, _, _, _, _, _)
AddValues(hdr, k, vs, i, template, value) ==
    IF i > Len(vs) THEN hdr
    ELSE AddValues(Add(hdr, k, replaceTemplate(vs[i], template, value)),
                   k, vs, i + 1, template, value)

\* a slip that leaves every header alone that the target already holds
ApplyEntryKeepExisting(h, hdr, k, template, value) ==
    IF k \in DOMAIN hdr
    THEN hdr
    ELSE AddValues(Del(hdr, k), replaceTemplate(k, template, value),
                   h.Header[k], 1, template, value)

\* the body of the loop over h.Header, for key k
ApplyEntry(h, hdr, k, template, value) ==
    IF k \in DOMAIN hdr /\ headerDefaultValue(h, k)
    THEN hdr
    ELSE AddValues(Del(hdr, k), replaceTemplate(k, template, value),
                   h.Header[k], 1, template, value)

RECURSIVE Visit(_, _, _, _, _)
\* frontier: the pairs (keys visited, target so far) after some number of
\* iterations; n iterations remain
Visit(h, frontier, n, template, value) ==
    IF n = 0 THEN frontier
    ELSE Visit(h,
               UNION { { [seen |-> p.seen \cup {k},
                          hdr  |-> ApplyEntry(h, p.hdr, k, template, value)]
                         : k \in (DOMAIN h.Header) \ p.seen }
                       : p \in frontier },
               n - 1, template, value)

ApplyEntries(h, hdr, template, value) ==
    { p.hdr : p \in Visit(h, {[seen |-> {}, hdr |-> hdr]},
                          Cardinality(DOMAIN h.Header), template, value) }

RECURSIVE DelAll(_, _)
DelAll(hdr, names) ==
    IF names = {} THEN hdr
    ELSE LET k == CHOOSE k \in names : TRUE
         IN  DelAll(Del(hdr, k), names \ {k})

\* a slip that strips the removed names before the values are added
HeaderApplyRemoveFirst(h, hdr, template, value) ==
    ApplyEntries(h, DelAll(hdr, h.Remove), template, value)

\* Header.Apply(hdr, insertValue), insertValue being replaceTemplate(_, template, value)
HeaderApply(h, hdr, template, value) ==
    { DelAll(t, h.Remove) : t \in ApplyEntries(h, hdr, template, value) }

(***************************************************************************)
(* net/url: Parse and ParseRequestURI on token strings.  A URL is spelt    *)
(* scheme token, optional user-info token, host tokens, path tokens (the   *)
(* first one starts with "/"), query token (starts with "?").  Without a   *)
(* scheme token everything before the query is the path.  "%zz" is an      *)
(* invalid escape.  User is <<>> for a nil *Userinfo.                      *)
(***************************************************************************)
SchemeToks == {"http://", "https://"}
UserToks   == {"u:p@", "f:s@"}
PathStart  == {"/"}
QueryStart == {"?q"}

FirstIn(s, toks) ==
    IF \E i \in 1..Len(s) : s[i] \in toks
    THEN CHOOSE i \in 1..Len(s) : s[i] \in toks /\ \A j \in 1..(i - 1) : s[j] \notin toks
    ELSE Len(s) + 1

NoURL == [Scheme |-> <<>>, User |-> <<>>, Host |-> <<>>, Path |-> <<>>, RawQuery |-> <<>>]

Parse(rawurl) ==
    LET q         == FirstIn(rawurl, QueryStart)
        front     == SubSeq(rawurl, 1, q - 1)
        hasScheme == Len(front) > 0 /\ front[1] \in SchemeToks
        rest      == IF hasScheme THEN Tail(front) ELSE front
        hasUser   == hasScheme /\ Len(rest) > 0 /\ rest[1] \in UserToks
        authority == IF hasUser THEN Tail(rest) ELSE rest
        p         == FirstIn(authority, PathStart)
    IN  IF \E i \in 1..Len(front) : front[i] = "%zz"
        THEN [err |-> "url syntax", u |-> NoURL]
        ELSE [err |-> "",
              u   |-> [Scheme   |-> IF hasScheme THEN <<front[1]>> ELSE <<>>,
                       User     |-> IF hasUser THEN <<rest[1]>> ELSE <<>>,
                       Host     |-> IF hasScheme THEN SubSeq(authority, 1, p - 1) ELSE <<>>,
                       Path     |-> IF hasScheme
                                    THEN SubSeq(authority, p, Len(authority))
                                    ELSE front,
                       RawQuery |-> SubSeq(rawurl, q, Len(rawurl))]]

\* url.ParseRequestURI: an absolute URI or an absolute path
ParseRequestURI(rawurl) ==
    IF rawurl = <<>> \/ rawurl[1] \notin (SchemeToks \cup PathStart)
    THEN [err |-> "invalid URI for request", u |-> NoURL]
    ELSE Parse(rawurl)

(***************************************************************************)
(* net/http: validMethod, NewRequest, ReadRequest, SetBasicAuth            *)
(***************************************************************************)
MethodToks == {"GET", "POST", "PUT", "FUZZ", "admin"}

validMethod(method) ==
    Len(method) > 0 /\ \A i \in 1..Len(method) : method[i] \in MethodToks

NoRequest == [Method |-> <<>>, URL |-> NoURL, Header |-> EmptyMap, Host |-> <<>>,
              ContentLength |-> 0, Body |-> <<>>]

Failure(kind) == [err |-> kind, req |-> NoRequest]

Success(req) == [err |-> "", req |-> req]

NewRequest(method, url, body) ==
    LET m == IF method = <<>> THEN <<"GET">> ELSE method
        p == Parse(url)
    IN  IF ~validMethod(m) THEN Failure("invalid method")
        ELSE IF p.err # "" THEN Failure(p.err)
        ELSE Success([Method |-> m, URL |-> p.u, Header |-> EmptyMap, Host |-> p.u.Host,
                      ContentLength |-> Len(body), Body |-> body])

\* base64 of "user:password"
Base64 == [t \in UserToks |-> IF t = "u:p@" THEN "dTpw" ELSE "Zjpz"]

SetBasicAuth(req, user) ==
    [req EXCEPT !.Header = HeaderSet(@, <<"Authorization">>, <<"Basic ", Base64[user[1]]>>)]

(***************************************************************************)
(* The files ioutil.ReadFile can be asked for.  A file is kept as the      *)
(* parts http.ReadRequest finds in it: the request line's method and URI,  *)
(* the header block, the body it declares (Body), the bytes behind that    *)
(* body (Rest), and the error reading the declared body ends in.           *)
(***************************************************************************)
Files ==
    [f \in {"origin.txt", "absolute.txt", "chunked.txt"} |->
        CASE f = "origin.txt" ->
                [Method |-> <<"POST">>, RequestURI |-> <<"/", "FUZZ", "?q">>,
                 Header |-> (<<"Host">> :> <<<<"files.test">>>>
                             @@ <<"User-Agent">> :> <<<<"curl">>>>),
                 Body |-> <<"a=", "FUZZ">>, Rest |-> <<"&b">>, BodyErr |-> "unexpected EOF"]
          [] f = "absolute.txt" ->
                [Method |-> <<"GET">>, RequestURI |-> <<"http://", "f:s@", "files.test">>,
                 Header |-> (<<"Accept">> :> <<<<"*/*">>>>),
                 Body |-> <<>>, Rest |-> <<>>, BodyErr |-> ""]
          [] f = "chunked.txt" ->
                [Method |-> <<"FUZZ">>, RequestURI |-> <<"/">>,
                 Header |-> (<<"Host">> :> <<<<"files.test">>>>),
                 Body |-> <<"zz">>, Rest |-> <<>>, BodyErr |-> "malformed chunked encoding"]]

ReadFile(name) ==
    IF Len(name) = 1 /\ name[1] \in DOMAIN Files
    THEN [err |-> "", buf |-> Files[name[1]]]
    ELSE [err |-> "no such file", buf |-> <<>>]

\* bytes.Replace(buf, template, value, -1): the placeholder inside any part
BytesReplace(buf, template, value) ==
    [buf EXCEPT !.Method     = Replace(@, template, value),
                !.RequestURI = Replace(@, template, value),
                !.Header     = [k \in DOMAIN @ |->
                                  [i \in 1..Len(@[k]) |-> Replace(@[k][i], template, value)]],
                !.Body       = Replace(@, template, value),
                !.Rest       = Replace(@, template, value)]

\* http.ReadRequest: Host is moved from the header block to req.Host
ReadRequest(buf) ==
    LET p == ParseRequestURI(buf.RequestURI)
    IN  IF ~validMethod(buf.Method) THEN Failure("malformed HTTP request")
        ELSE IF p.err # "" THEN Failure("malformed HTTP request")
        ELSE Success([Method |-> buf.Method, URL |-> p.u,
                      Header |-> MapDelete(buf.Header, <<"Host">>),
                      Host |-> IF p.u.Host # <<>> THEN p.u.Host
                               ELSE IF MapGet(buf.Header, <<"Host">>) = <<>> THEN <<>>
                               ELSE buf.Header[<<"Host">>][1],
                      ContentLength |-> Len(buf.Body), Body |-> buf.Body])

(***************************************************************************)
(* Request.Apply                                                           *)
(***************************************************************************)
\* a slip that forgets the query string
checkURLFieldPathOnly(u) ==
    IF u.Path # <<>> /\ u.Path # <<"/">>
    THEN "URL must not contain a path, it's taken from the template file"
    ELSE ""

\* the URL field next to a template file: only scheme, host and port count
checkURLField(u) ==
    IF u.Path # <<>> /\ u.Path # <<"/">>
    THEN "URL must not contain a path, it's taken from the template file"
    ELSE IF u.RawQuery # <<>>
    THEN "URL must not contain a query string, it's taken from the template file"
    ELSE ""

\* "fill some details from the URL"
fillFromURL(req, u) ==
    [req EXCEPT !.URL.Scheme = u.Scheme,
                !.URL.Host   = u.Host,
                !.URL.User   = IF u.User # <<>> THEN u.User ELSE @]

\* the branch r.TemplateFile != ""
fromTemplateFile(r, template, value) ==
    LET targetURL == replaceTemplate(r.URL, template, value)
        body      == replaceTemplate(r.Body, template, value)
        file      == ReadFile(r.TemplateFile)
        buf       == BytesReplace(file.buf, template, value)
        rd        == ReadRequest(buf)
        origBody  == buf.Body \o buf.Rest
        p         == Parse(targetURL)
        read      == [rd.req EXCEPT !.Body = origBody, !.ContentLength = Len(origBody)]
        filled    == fillFromURL(read, p.u)
        withBody  == IF Len(body) > 0
                     THEN [filled EXCEPT !.Body = body, !.ContentLength = Len(body)]
                     ELSE filled
        withMeth  == IF r.Method # <<>>
                     THEN [withBody EXCEPT !.Method = replaceTemplate(r.Method, template, value)]
                     ELSE withBody
    IN  IF file.err # "" THEN Failure(file.err)
        ELSE IF rd.err # "" THEN Failure("error reading HTTP request")
        ELSE IF buf.BodyErr \notin {"", "unexpected EOF"} THEN Failure(buf.BodyErr)
        ELSE IF p.err # "" THEN Failure(p.err)
        ELSE IF checkURLField(p.u) # "" THEN Failure(checkURLField(p.u))
        ELSE Success(withMeth)

\* a slip that compares the name as typed with "Host"
removesHostAsTyped(h) == <<"Host">> \in h.Remove

\* the loop over r.Header.Remove meets the Host header
removesHost(h) == \E k \in h.Remove : CanonicalMIMEHeaderKey(k) = <<"Host">>

\* the values req.Host can end with: the loop over r.Header.Header assigns
\* v[0] for every key spelling Host, the key visited last wins
hostField(h, host) ==
    LET keys == {k \in DOMAIN h.Header : CanonicalMIMEHeaderKey(k) = <<"Host">>}
    IN  IF keys = {} THEN {host} ELSE {h.Header[k][1] : k \in keys}

\* from "if r.ForceChunkedEncoding" to the end of Apply
finish(r, req, template, value) ==
    LET chunked == IF r.ForceChunkedEncoding THEN [req EXCEPT !.ContentLength = -1] ELSE req
        authed  == IF chunked.URL.User # <<>>
                   THEN SetBasicAuth(chunked, chunked.URL.User)
                   ELSE chunked
        pathed  == IF authed.URL.Path = <<>> THEN [authed EXCEPT !.URL.Path = <<"/">>] ELSE authed
        noUA    == \E k \in r.Header.Remove : CanonicalMIMEHeaderKey(k) = <<"User-Agent">>
    IN  IF removesHost(r.Header)
        THEN {Failure("request without Host header is not supported")}
        ELSE { Success([pathed EXCEPT
                          !.Header = IF noUA THEN HeaderSet(hdr, <<"User-Agent">>, <<>>) ELSE hdr,
                          !.Host   = host])
               : hdr \in HeaderApply(r.Header, pathed.Header, template, value),
                 host \in hostField(r.Header, pathed.Host) }

\* Apply up to the end of "if r.TemplateFile != "" ... else ..."
build(r, template, value) ==
    IF r.TemplateFile # <<>>
    THEN fromTemplateFile(r, template, value)
    ELSE NewRequest(replaceTemplate(r.Method, template, value),
                    replaceTemplate(r.URL, template, value),
                    replaceTemplate(r.Body, template, value))

\* Request.Apply(template, value): every result some visiting order of the
\* header maps produces
RequestApply(r, template, value) ==
    LET built == build(r, template, value)
    IN  IF built.err # "" THEN {built} ELSE finish(r, built.req, template, value)

(***************************************************************************)
(* The values the operations are tried on                                  *)
(***************************************************************************)
URLs == { <<"http://", "example.com", "/", "FUZZ">>,
          <<"https://", "u:p@", "example.com">>,
          <<"http://", "%zz">> }

Methods == { <<>>, <<"PUT">>, <<"FUZZ">> }

Bodies == { <<>>, <<"data=", "FUZZ">> }

TemplateFiles == { <<>>, <<"origin.txt">>, <<"absolute.txt">>, <<"chunked.txt">>,
                   <<"missing.txt">> }

Placeholders == { <<"FUZZ">> }

Values == { <<>>, <<"admin">>, <<"?q">> }

ReqDirectives == { <<"Host", ":", " ", "FUZZ">>,
                   <<"host", ":", "a">>,
                   <<"Authorization", ":", " ", "tok">>,
                   <<"Host">>,
                   <<"host">>,
                   <<"User-Agent">> }

HdrDirectives == { <<"Accept", ":", " ", "text/plain">>,
                   <<"Accept", ":", " ", "*/*">>,
                   <<"accept", ":", " ", "x">>,
                   <<"accept", ":", "y">>,
                   <<"X-Foo", ":", " ", " ", "bar">>,
                   <<"FUZZ", ":", " ", "v">>,
                   <<"X-Foo">>,
                   <<"accept">> }

HdrValues == { <<"admin">>, <<"X-Foo">> }

Targets == { EmptyMap,
             <<"Accept">> :> <<<<"*/*">>>>,
             <<"Accept">> :> <<<<"old">>>> @@ <<"X-Foo">> :> <<<<"old">>, <<"older">>>> }

(***************************************************************************)
(* State machine                                                           *)
(***************************************************************************)
R == [URL |-> URL, Method |-> Method, Header |-> Header, Body |-> Body,
      TemplateFile |-> TemplateFile, ForceChunkedEncoding |-> ForceChunkedEncoding]

NoCall == [template |-> <<>>, value |-> <<>>]

\* New(), the package's DefaultHeader as declared
Init ==
    /\ DefaultHeader = (<<"Accept">> :> <<<<"*/*">>>> @@ <<"User-Agent">> :> <<<<"monsoon">>>>)
    /\ Header = NewHeader(DefaultHeader)
    /\ URL = <<>>
    /\ Method = <<>>
    /\ Body = <<>>
    /\ TemplateFile = <<>>
    /\ ForceChunkedEncoding = FALSE
    /\ directives = <<>>
    /\ op = "New"
    /\ call = NoCall
    /\ ret = Failure("")

\* the caller fills the exported fields (the flags of AddFlags, the URL)
Configure ==
    /\ op = "New"
    /\ URL' \in URLs
    /\ Method' \in Methods
    /\ Body' \in Bodies
    /\ TemplateFile' \in TemplateFiles
    /\ ForceChunkedEncoding' \in BOOLEAN
    /\ op' = "Configure"
    /\ UNCHANGED <<Header, DefaultHeader, directives, call, ret>>

\* h.Set(s), from the --header flag
SetStep(s, max) ==
    /\ Len(directives) < max
    /\ Header' = Set(Header, s)
    /\ directives' = Append(directives, s)
    /\ op' = "Set"
    /\ call' = NoCall
    /\ ret' = Failure("")
    /\ UNCHANGED <<URL, Method, Body, TemplateFile, ForceChunkedEncoding, DefaultHeader>>

\* a slip that stores the substituted method back into the template
ApplyStepStoring ==
    \E template \in Placeholders, value \in Values :
        /\ ret' \in RequestApply(R, template, value)
        /\ call' = [template |-> template, value |-> value]
        /\ op' = "Apply"
        /\ Method' = replaceTemplate(Method, template, value)
        /\ UNCHANGED <<URL, Body, TemplateFile, ForceChunkedEncoding, Header,
                       DefaultHeader, directives>>

\* r.Apply(template, value)
ApplyStep ==
    \E template \in Placeholders, value \in Values :
        /\ ret' \in RequestApply(R, template, value)
        /\ call' = [template |-> template, value |-> value]
        /\ op' = "Apply"
        /\ UNCHANGED <<URL, Method, Body, TemplateFile, ForceChunkedEncoding, Header,
                       DefaultHeader, directives>>

Next ==
    \/ Configure
    \/ \E s \in ReqDirectives : SetStep(s, MaxDirectives)
    \/ ApplyStep

Spec == Init /\ [][Next]_vars

(***************************************************************************)
(* Header.Set and Header.Apply on their own                                *)
(***************************************************************************)
\* h.Apply(hdr, insertValue) onto a header collection of the caller
HeaderApplyStep ==
    \E hdr \in Targets, template \in Placeholders, value \in HdrValues :
        /\ ret' \in HeaderApply(Header, hdr, template, value)
        /\ call' = [template |-> template, value |-> value, hdr |-> hdr]
        /\ op' = "HeaderApply"
        /\ UNCHANGED <<URL, Method, Body, TemplateFile, ForceChunkedEncoding, Header,
                       DefaultHeader, directives>>

NextHeader ==
    \/ \E s \in HdrDirectives : SetStep(s, MaxHdrDirectives)
    \/ HeaderApplyStep

SpecHeader == Init /\ [][NextHeader]_vars

(***************************************************************************)
(* replaceTemplate on its own, on strings of characters                    *)
(***************************************************************************)
Chars == {"a", "b", "c"}

Strings(n) == UNION { [1..k -> Chars] : k \in 0..n }

InitReplace ==
    /\ DefaultHeader = (<<"Accept">> :> <<<<"*/*">>>> @@ <<"User-Agent">> :> <<<<"monsoon">>>>)
    /\ Header = NewHeader(DefaultHeader)
    /\ URL = <<>>
    /\ Method = <<>>
    /\ Body = <<>>
    /\ TemplateFile = <<>>
    /\ ForceChunkedEncoding = FALSE
    /\ directives = <<>>
    /\ op = "New"
    /\ call \in [s : Strings(MaxStrLen), template : Strings(MaxPatLen),
                 value : Strings(MaxPatLen)]
    /\ ret = <<>>

ReplaceStep ==
    /\ op = "New"
    /\ ret' = replaceTemplate(call.s, call.template, call.value)
    /\ op' = "replaceTemplate"
    /\ UNCHANGED <<URL, Method, Body, TemplateFile, ForceChunkedEncoding, Header,
                   DefaultHeader, directives, call>>

NextReplace == ReplaceStep

SpecReplace == InitReplace /\ [][NextReplace]_vars

(***************************************************************************)
(* Properties                                                              *)
(***************************************************************************)
\* the parts of a directive string as its user reads them
IsAddition(s) == \E i \in 1..Len(s) : s[i] = ":"

DirectiveName(s) == IF IsAddition(s) THEN SubSeq(s, 1, FirstColon(s) - 1) ELSE s

DirectiveValue(s) ==
    LET v == SubSeq(s, FirstColon(s) + 1, Len(s))
    IN  IF v # <<>> /\ v[1] = " " THEN Tail(v) ELSE v

Substituted(vs, template, value) ==
    [i \in 1..Len(vs) |-> replaceTemplate(vs[i], template, value)]

KeysSpelling(h, name) == {k \in DOMAIN h.Header : CanonicalMIMEHeaderKey(k) = name}

\* the values DefaultHeader holds for the name
DefaultValues(name) ==
    LET d == MapGet(DefaultHeader, CanonicalMIMEHeaderKey(name))
    IN  {d[i] : i \in 1..Len(d)}

\* C1: after n >= 1 addition directives name: v1 .. name: vn for one name
\* (and no other directive), Header.Apply leaves the target's entry for that
\* name equal to [v1, .., vn] (each after substitution), whatever the target
\* held.  Stated for values other than the name's default values, so that a
\* given value is never mistaken for an untouched default.
C1_AllGivenValuesApplied ==
    (/\ op = "HeaderApply"
     /\ directives # <<>>
     /\ \A i \in 1..Len(directives) :
            /\ IsAddition(directives[i])
            /\ DirectiveName(directives[i]) = DirectiveName(directives[1])
            /\ DirectiveValue(directives[i]) \notin DefaultValues(DirectiveName(directives[1]))
     /\ ~Contains(DirectiveName(directives[1]), call.template))
    => MapGet(ret, CanonicalMIMEHeaderKey(DirectiveName(directives[1])))
         = [i \in 1..Len(directives) |->
              replaceTemplate(DirectiveValue(directives[i]), call.template, call.value)]

\* C2: once a removal directive for a name was given, Header.Apply leaves
\* the target without an entry for that name (as typed and in canonical
\* spelling), whatever the target held and whatever additions were given.
C2_RemovedNameAbsent ==
    op = "HeaderApply" =>
        \A i \in 1..Len(directives) :
            ~IsAddition(directives[i]) =>
                /\ directives[i] \notin DOMAIN ret
                /\ CanonicalMIMEHeaderKey(directives[i]) \notin DOMAIN ret

\* C2 witness: a removed name that the target held and that an addition
\* directive names too (after substitution), with Header.Apply done
C2_Witness ==
    /\ op = "HeaderApply"
    /\ \E i, j \in 1..Len(directives) :
          /\ ~IsAddition(directives[i])
          /\ IsAddition(directives[j])
          /\ CanonicalMIMEHeaderKey(directives[i]) \in DOMAIN call.hdr
          /\ CanonicalMIMEHeaderKey(
                 replaceTemplate(DirectiveName(directives[j]), call.template, call.value))
               = CanonicalMIMEHeaderKey(directives[i])

\* C3: when Request.Apply succeeds and the Header Set holds a Host addition,
\* req.Host is the substituted value of a Host directive.
C3_HostFieldSubstituted ==
    (op = "Apply" /\ ret.err = "" /\ KeysSpelling(Header, <<"Host">>) # {})
    => ret.req.Host \in { replaceTemplate(Header.Header[k][1], call.template, call.value)
                          : k \in KeysSpelling(Header, <<"Host">>) }

\* the URL field, after substitution, carries credentials and the Header
\* Set holds an Authorization addition; Request.Apply returned a request
C4_Case ==
    /\ op = "Apply"
    /\ ret.err = ""
    /\ Parse(replaceTemplate(URL, call.template, call.value)).u.User # <<>>
    /\ KeysSpelling(Header, <<"Authorization">>) # {}

\* C4 as claimed: the request carries the basic-authentication value made
\* from the URL credentials, not the directive's value.
C4_URLCredentialsWin ==
    C4_Case =>
        MapGet(ret.req.Header, <<"Authorization">>)
          = << <<"Basic ", Base64[ret.req.URL.User[1]]>> >>

\* C4 amended: the request carries the values of an Authorization
\* directive, after substitution (no Authorization removal given).
C4_DirectiveWins ==
    (C4_Case /\ \A k \in Header.Remove : CanonicalMIMEHeaderKey(k) # <<"Authorization">>)
    => MapGet(ret.req.Header, <<"Authorization">>)
         \in { Substituted(Header.Header[k], call.template, call.value)
               : k \in KeysSpelling(Header, <<"Authorization">>) }

\* C4 witness: such a request was built from scratch and returned
C4_Witness == C4_Case /\ TemplateFile = <<>>

\* C5: with Host (in any letter case) among the removals Request.Apply
\* returns no request, and the unsupported-configuration error unless an
\* earlier step failed.
C5_HostRemovalRejected ==
    (op = "Apply" /\ \E k \in Header.Remove : CanonicalMIMEHeaderKey(k) = <<"Host">>)
    => /\ ret.err # ""
       /\ ret.req = NoRequest
       /\ build(R, call.template, call.value).err = ""
            => ret.err = "request without Host header is not supported"

\* C5 witness: host and User-Agent removed, a template file in use, and
\* Request.Apply ended with the unsupported-configuration error
C5_Witness ==
    /\ op = "Apply"
    /\ Header.Remove = {<<"host">>, <<"User-Agent">>}
    /\ TemplateFile # <<>>
    /\ ret.err = "request without Host header is not supported"

\* the template file was read and parsed, the URL field parses
C6_Case ==
    /\ op = "Apply"
    /\ TemplateFile # <<>>
    /\ ReadFile(TemplateFile).err = ""
    /\ ReadRequest(BytesReplace(ReadFile(TemplateFile).buf, call.template, call.value)).err = ""
    /\ ReadFile(TemplateFile).buf.BodyErr \in {"", "unexpected EOF"}
    /\ Parse(replaceTemplate(URL, call.template, call.value)).err = ""

C6_Field == Parse(replaceTemplate(URL, call.template, call.value)).u

C6_Line ==
    ParseRequestURI(Replace(ReadFile(TemplateFile).buf.RequestURI,
                            call.template, call.value)).u

C6_Rejected ==
    (C6_Field.Path \notin {<<>>, <<"/">>} \/ C6_Field.RawQuery # <<>>)
    => /\ ret.req = NoRequest
       /\ ret.err \in {"URL must not contain a path, it's taken from the template file",
                       "URL must not contain a query string, it's taken from the template file"}

\* the path of the file's request line, an empty one made "/"
C6_LinePath == IF C6_Line.Path = <<>> THEN <<"/">> ELSE C6_Line.Path

\* C6 as claimed: a URL field with a path other than "" or "/" or with a
\* query is rejected with a validation error; a returned request takes
\* scheme, host and user-info from the URL field and path and query from the
\* file's request line.
C6_URLFieldOwnsUserInfo ==
    C6_Case =>
        /\ C6_Rejected
        /\ ret.err = "" =>
              /\ ret.req.URL.Scheme = C6_Field.Scheme
              /\ ret.req.URL.Host = C6_Field.Host
              /\ ret.req.URL.User = C6_Field.User
              /\ ret.req.URL.Path = C6_LinePath
              /\ ret.req.URL.RawQuery = C6_Line.RawQuery

\* C6 amended: a URL field with a path other than "" or "/" or with a query
\* is rejected with a validation error; a returned request takes scheme and
\* host from the URL field, user-info from the URL field when it has one and
\* else from the file's request line, and path (an empty one made "/") and
\* query from the file's request line.
C6_TemplateFileURL ==
    C6_Case =>
        /\ C6_Rejected
        /\ ret.err = "" =>
              /\ ret.req.URL.Scheme = C6_Field.Scheme
              /\ ret.req.URL.Host = C6_Field.Host
              /\ ret.req.URL.User = IF C6_Field.User # <<>> THEN C6_Field.User
                                    ELSE C6_Line.User
              /\ ret.req.URL.Path = C6_LinePath
              /\ ret.req.URL.RawQuery = C6_Line.RawQuery

\* C6 witness: the check passed for a URL field without credentials and
\* the returned request kept the user-info of the file's request line
C6_Witness ==
    /\ C6_Case
    /\ ret.err = ""
    /\ C6_Field.User = <<>>
    /\ ret.req.URL.User = <<"f:s@">>
    /\ ret.req.URL.Host = <<"example.com">>

\* C7: a call of Request.Apply, successful or not, leaves the Request
\* fields, the Header Set and DefaultHeader as they were.
C7_ApplyLeavesTemplate == [][op' = "Apply" => tmplVars' = tmplVars]_vars

\* C7 witness: a successful Request.Apply that substituted the method
\* field, with removals and a Host directive in the Header Set
C7_Witness ==
    /\ op = "Apply"
    /\ ret.err = ""
    /\ Method = <<"FUZZ">>
    /\ call.value = <<"admin">>
    /\ Header.Remove # {}
    /\ KeysSpelling(Header, <<"Host">>) # {}

\* C8: the result of Request.Apply is the only one the template state,
\* the placeholder and the value allow.
C8_Deterministic ==
    op = "Apply" => RequestApply(R, call.template, call.value) = {ret}

\* C10: on the template-file path the returned method is the substituted
\* method field when that is non-empty and the file's method when it is
\* empty.
C10_MethodAfterSubstitution ==
    (op = "Apply" /\ TemplateFile # <<>> /\ ret.err = "")
    => ret.req.Method =
         IF replaceTemplate(Method, call.template, call.value) # <<>>
         THEN replaceTemplate(Method, call.template, call.value)
         ELSE Replace(ReadFile(TemplateFile).buf.Method, call.template, call.value)

\* where template occurs in s
Positions(s, template) == {i \in 1..Len(s) : HasPrefixAt(s, i, template)}

ReplacedAt(s, i, template, value) ==
    SubSeq(s, 1, i - 1) \o value \o SubSeq(s, i + Len(template), Len(s))

C9_Case == op = "replaceTemplate" /\ call.template # <<>> /\ call.value # call.template

C9_Once == Cardinality(Positions(call.s, call.template)) = 1

C9_Result ==
    /\ C9_Once => ret = ReplacedAt(call.s, CHOOSE i \in Positions(call.s, call.template) : TRUE,
                                   call.template, call.value)
    /\ Positions(call.s, call.template) = {} => ret = call.s

\* C9 as claimed: one occurrence is replaced by the value and the result
\* holds no occurrence of the placeholder; without an occurrence the string
\* is returned as it is.
C9_NoPlaceholderLeft ==
    C9_Case => /\ C9_Result
               /\ C9_Once => ~Contains(ret, call.template)

\* C9 amended: as claimed, but the result is free of the placeholder when
\* the value is non-empty and shares no character with the placeholder.
C9_SingleOccurrence ==
    C9_Case => /\ C9_Result
               /\ (/\ C9_Once
                   /\ call.value # <<>>
                   /\ \A i \in 1..Len(call.value), j \in 1..Len(call.template) :
                          call.value[i] # call.template[j])
                  => ~Contains(ret, call.template)

\* C9 witness: the single occurrence of a two-character placeholder was
\* replaced by a non-empty value and the result is free of the placeholder
C9_Witness ==
    /\ C9_Case
    /\ C9_Once
    /\ Len(call.template) = 2
    /\ call.value # <<>>
    /\ ret # call.s
    /\ ~Contains(ret, call.template)

====
